---------------------------- MODULE Spec2Model ----------------------------
(***************************************************************************)
(* A model of the tarangini-alerts repository:                             *)
(*   src/incois_scraper.py  the ingestion run (feeds, pages, fallback,      *)
(*                          de-duplication, the exchange file alerts.json)  *)
(*   src/main.py            the serving layer (StoreSync from alerts.json   *)
(*                          into the Alert table, list-all, proximity)      *)
(*                                                                         *)
(* Text is a sequence of one-character strings, so that lower-casing,      *)
(* substring search, slicing and markup stripping are computed as the code *)
(* computes them.  A character outside ASCII is a token naming its code    *)
(* point ("U+1F6A8").  A coordinate is an integer number of 1/10000        *)
(* degree (17.7 is 177000).                                                *)
(*                                                                         *)
(* Specifications:                                                         *)
(*   SpecSeverity  _determine_severity applied to texts of a bounded set   *)
(*   SpecIngest    one standalone ingestion run (main of incois_scraper)   *)
(*   Spec          the serving layer, one request at a time                *)
(*   SpecPasses    the serving layer, two requests at a time, a pass of     *)
(*                 StoreSync being several steps                            *)
(***************************************************************************)
EXTENDS Integers, Sequences, FiniteSets, TLC

VARIABLES
    \* ---- SpecSeverity
    sevText,          \* the text handed to _determine_severity
    sevResult,        \* its result, "none" before the call
    \* ---- SpecIngest
    pc,               \* position of main() / fetch_incois_alerts()
    feedIdx,          \* index (1-based) of the next feed of potential_feeds
    pageIdx,          \* index (1-based) of the next page of scraping_urls
    all_alerts,       \* fetch_incois_alerts: all_alerts
    returned,         \* the list fetch_incois_alerts returned
    alerts_processed, \* INCOISScraper.alerts_processed
    alerts_skipped,   \* INCOISScraper.alerts_skipped
    raised,           \* "no" | "exception" | "interrupt": what main() caught
    writeFailed,      \* a write of alerts.json failed during the run
    lastFetch,        \* "none" | "failed" | "answered": how the last source fared
    \* ---- both
    file,             \* alerts.json: [state, data]
    \* ---- Spec
    store,            \* rows of the Alert table, in rowid order
    clock,            \* number of StoreSync passes started (datetime.utcnow())
    resp,             \* the last response of the serving layer
    prev,             \* the response before resp, over the same file
    \* ---- SpecPasses
    passes,           \* the requests in flight: where each stands in its pass
    observed          \* the tables a reader may have read: every committed one

vars == << sevText, sevResult, pc, feedIdx, pageIdx, all_alerts,
           returned, alerts_processed, alerts_skipped, raised, writeFailed,
           lastFetch, file, store, clock, resp, prev, passes, observed >>

sevVars == << sevText, sevResult >>
ingestVars == << pc, feedIdx, pageIdx, all_alerts, returned,
                 alerts_processed, alerts_skipped, raised, writeFailed,
                 lastFetch >>
storeVars == << store, clock, resp, prev, passes, observed >>

-----------------------------------------------------------------------------
(* Text: Python str operations on sequences of characters.                 *)

UpperChars ==
    <<"A","B","C","D","E","F","G","H","I","J","K","L","M","N","O","P","Q","R","S","T","U","V","W","X","Y","Z">>
LowerChars ==
    <<"a","b","c","d","e","f","g","h","i","j","k","l","m","n","o","p","q","r","s","t","u","v","w","x","y","z">>
Digits == {"0","1","2","3","4","5","6","7","8","9"}

Range(s) == { s[i] : i \in DOMAIN s }

Min(a, b) == IF a <= b THEN a ELSE b

\* the lower-case letter of each upper-case letter
LowerOf ==
    "A" :> "a" @@ "B" :> "b" @@ "C" :> "c" @@ "D" :> "d" @@ "E" :> "e" @@ "F" :> "f"
    @@ "G" :> "g" @@ "H" :> "h" @@ "I" :> "i" @@ "J" :> "j" @@ "K" :> "k" @@ "L" :> "l"
    @@ "M" :> "m" @@ "N" :> "n" @@ "O" :> "o" @@ "P" :> "p" @@ "Q" :> "q" @@ "R" :> "r"
    @@ "S" :> "s" @@ "T" :> "t" @@ "U" :> "u" @@ "V" :> "v" @@ "W" :> "w" @@ "X" :> "x"
    @@ "Y" :> "y" @@ "Z" :> "z"

\* str.lower() on one character
LowerChar(c) == IF c \in DOMAIN LowerOf THEN LowerOf[c] ELSE c

\* str.lower()
Lower(s) == [ i \in DOMAIN s |-> LowerChar(s[i]) ]

\* s[:n]
Take(s, n) == SubSeq(s, 1, Min(n, Len(s)))

\* needle in hay
Contains(hay, needle) ==
    \E i \in 1..(Len(hay) - Len(needle) + 1) :
        SubSeq(hay, i, i + Len(needle) - 1) = needle

\* the characters Python's \s and str.strip() treat as whitespace
Whitespace == {" ", "\n", "\t", "NBSP"}

\* regex \w
IsWordChar(c) == c \in Range(UpperChars) \cup Range(LowerChars) \cup Digits \cup {"_"}

-----------------------------------------------------------------------------
(* _determine_severity (incois_scraper.py 82-95, 121-135)                  *)

EmergencyKeywords ==
    << <<"t","s","u","n","a","m","i">>,
       <<"c","y","c","l","o","n","e">>,
       <<"s","e","v","e","r","e"," ","c","y","c","l","o","n","e">>,
       <<"v","e","r","y"," ","s","e","v","e","r","e"," ","c","y","c","l","o","n","e">>,
       <<"s","u","p","e","r"," ","c","y","c","l","o","n","e">>,
       <<"r","e","d"," ","a","l","e","r","t">>,
       <<"e","m","e","r","g","e","n","c","y">>,
       <<"e","v","a","c","u","a","t","i","o","n">>,
       <<"e","x","t","r","e","m","e">>,
       <<"d","a","n","g","e","r","o","u","s">>,
       <<"l","i","f","e"," ","t","h","r","e","a","t","e","n","i","n","g">>,
       <<"c","a","t","a","s","t","r","o","p","h","i","c">>,
       <<"s","u","p","e","r"," ","c","y","c","l","o","n","i","c"," ","s","t","o","r","m">>,
       <<"e","x","t","r","e","m","e","l","y"," ","s","e","v","e","r","e">> >>

WarningKeywords ==
    << <<"w","a","r","n","i","n","g">>,
       <<"h","e","a","v","y"," ","r","a","i","n">>,
       <<"f","l","o","o","d">>,
       <<"h","i","g","h"," ","t","i","d","e">>,
       <<"s","t","o","r","m"," ","s","u","r","g","e">>,
       <<"o","r","a","n","g","e"," ","a","l","e","r","t">>,
       <<"y","e","l","l","o","w"," ","a","l","e","r","t">>,
       <<"c","a","u","t","i","o","n">>,
       <<"a","d","v","i","s","o","r","y">>,
       <<"r","o","u","g","h"," ","s","e","a">>,
       <<"h","i","g","h"," ","w","a","v","e","s">>,
       <<"s","t","r","o","n","g"," ","w","i","n","d">>,
       <<"d","e","p","r","e","s","s","i","o","n">>,
       <<"c","y","c","l","o","n","i","c"," ","s","t","o","r","m">>,
       <<"d","e","e","p"," ","d","e","p","r","e","s","s","i","o","n">> >>

\* for keyword in keywords[i:]: if keyword.lower() in text_lower: return hit
RECURSIVE ScanKeywords(_, _, _, _, _)
ScanKeywords(keywords, i, text_lower, hit, otherwise) ==
    IF i > Len(keywords) THEN otherwise
    ELSE IF Contains(text_lower, Lower(keywords[i])) THEN hit
    ELSE ScanKeywords(keywords, i + 1, text_lower, hit, otherwise)

\* A slip that scans the warning keywords before the emergency keywords.
DetermineSeverityWarningFirst(text) ==
    LET text_lower == Lower(text) IN
    ScanKeywords(WarningKeywords, 1, text_lower, "warning",
        ScanKeywords(EmergencyKeywords, 1, text_lower, "emergency", "info"))

DetermineSeverity(text) ==
    LET text_lower == Lower(text) IN
    ScanKeywords(EmergencyKeywords, 1, text_lower, "emergency",
        ScanKeywords(WarningKeywords, 1, text_lower, "warning", "info"))

-----------------------------------------------------------------------------
(* _clean_text (incois_scraper.py 174-186)                                 *)

\* index of the first ">" at or after k, 0 when there is none
NextGt(s, k) ==
    IF \E j \in k..Len(s) : s[j] = ">"
    THEN CHOOSE j \in k..Len(s) : s[j] = ">" /\ \A m \in k..(j - 1) : s[m] # ">"
    ELSE 0

\* a match of <[^>]+> can begin at k: "<", then at least one character
\* that is not ">", then ">"
TagStart(s, k) == s[k] = "<" /\ NextGt(s, k + 1) >= k + 2

\* re.sub(r'<[^>]+>', ' ', text): the matches are leftmost and do not
\* overlap, so an index lies in a match exactly when some k that can begin a
\* match reaches it, and the match begins at the least such k
StripTags(s) ==
    LET starts == { k \in DOMAIN s : TagStart(s, k) }
        Cover(i) == { k \in starts : k <= i /\ i <= NextGt(s, k + 1) }
        marked == [ i \in DOMAIN s |->
                      IF Cover(i) = {} THEN s[i]
                      ELSE IF Cover(i) = {i} THEN " "
                      ELSE "DROP" ]
    IN SelectSeq(marked, LAMBDA c : c # "DROP")

\* re.sub(r'\s+', ' ', text): every run of whitespace becomes one space
CollapseWs(s) ==
    LET marked == [ i \in DOMAIN s |->
                      IF s[i] \notin Whitespace THEN s[i]
                      ELSE IF i > 1 /\ s[i - 1] \in Whitespace THEN "DROP"
                      ELSE " " ]
    IN SelectSeq(marked, LAMBDA c : c # "DROP")

\* text.replace(NBSP, ' ').replace(ZWSP, ''): U+00A0 and U+200B
ReplaceSpecial(s) ==
    LET marked == [ i \in DOMAIN s |-> IF s[i] = "NBSP" THEN " " ELSE s[i] ]
    IN SelectSeq(marked, LAMBDA c : c # "ZWSP")

\* str.strip()
Strip(s) ==
    LET keep == { i \in DOMAIN s : s[i] \notin Whitespace } IN
    IF keep = {} THEN << >>
    ELSE LET lo == CHOOSE i \in keep : \A j \in keep : i <= j
             hi == CHOOSE i \in keep : \A j \in keep : j <= i
         IN SubSeq(s, lo, hi)

CleanText(text) ==
    IF text = << >> THEN << >>
    ELSE Strip(ReplaceSpecial(CollapseWs(StripTags(text))))

-----------------------------------------------------------------------------
(* _extract_locations (incois_scraper.py 97-106, 137-148)                  *)
(* location_patterns holds six patterns: no comma parts the literals of    *)
(* lines 102 and 103, so the states and the cities make one pattern, a     *)
(* state name with a city name right behind it.  Modelled are the 1st      *)
(* pattern (a word and "coast"), the 2nd (the seas) and that 4th, each as  *)
(* re.finditer with re.IGNORECASE matches it.  The other three need one of *)
(* the words "district", "port", "harbour", "along" or "off"; the texts of *)
(* this model hold none of them, so those patterns match nothing here.     *)

SeaNames ==
    << <<"B","a","y"," ","o","f"," ","B","e","n","g","a","l">>,
       <<"A","r","a","b","i","a","n"," ","S","e","a">>,
       <<"I","n","d","i","a","n"," ","O","c","e","a","n">> >>

StateNames ==
    << <<"A","n","d","h","r","a"," ","P","r","a","d","e","s","h">>,
       <<"T","a","m","i","l"," ","N","a","d","u">>,
       <<"O","d","i","s","h","a">>,
       <<"W","e","s","t"," ","B","e","n","g","a","l">>,
       <<"K","a","r","n","a","t","a","k","a">>,
       <<"K","e","r","a","l","a">>,
       <<"G","u","j","a","r","a","t">>,
       <<"M","a","h","a","r","a","s","h","t","r","a">>,
       <<"G","o","a">> >>

CityNames ==
    << <<"C","h","e","n","n","a","i">>,
       <<"M","u","m","b","a","i">>,
       <<"K","o","l","k","a","t","a">>,
       <<"V","i","s","a","k","h","a","p","a","t","n","a","m">>,
       <<"C","o","c","h","i","n">>,
       <<"M","a","n","g","a","l","o","r","e">>,
       <<"P","a","r","a","d","i","p">>,
       <<"H","a","l","d","i","a">> >>

\* \b(name)\b matches at index i, ignoring case
MatchAt(text, i, name) ==
    /\ i + Len(name) - 1 <= Len(text)
    /\ Lower(SubSeq(text, i, i + Len(name) - 1)) = Lower(name)
    /\ (i = 1 \/ ~IsWordChar(text[i - 1]))
    /\ (i + Len(name) > Len(text) \/ ~IsWordChar(text[i + Len(name)]))

\* re.finditer of one alternation of names, in order of appearance.  Every
\* name begins and ends with a letter at a word boundary and no name of a
\* list ends with the word another begins with, so two matches of one list
\* never overlap and each index holds at most the first alternative there.
FindAll(text, names) ==
    LET Hits(i) == { k \in DOMAIN names : MatchAt(text, i, names[k]) }
        found == [ i \in DOMAIN text |->
                     IF Hits(i) = {} THEN << >>
                     ELSE LET k == CHOOSE h \in Hits(i) : \A g \in Hits(i) : h <= g
                          IN SubSeq(text, i, i + Len(names[k]) - 1) ]
    IN SelectSeq(found, LAMBDA m : m # << >>)

IsLetter(c) == c \in Range(UpperChars) \cup Range(LowerChars)

CoastWord == <<" ","c","o","a","s","t">>

\* \b([A-Z][a-z]+ (?:coast|Coast))\b matches at index i with the word ending at
\* j: two letters or more up to the blank, for [a-z]+ takes letters only
CoastAt(text, i, j) ==
    /\ i < j /\ j + Len(CoastWord) <= Len(text)
    /\ \A k \in i..j : IsLetter(text[k])
    /\ Lower(SubSeq(text, j + 1, j + Len(CoastWord))) = CoastWord
    /\ (i = 1 \/ ~IsWordChar(text[i - 1]))
    /\ (j + Len(CoastWord) = Len(text) \/ ~IsWordChar(text[j + Len(CoastWord) + 1]))

\* re.finditer of the 1st pattern.  A match begins at the start of a word, so
\* two matches overlap only where "coast" follows "coast"; no text here has it.
FindCoast(text) ==
    LET Ends(i) == { j \in DOMAIN text : CoastAt(text, i, j) }
        found == [ i \in DOMAIN text |->
                     IF Ends(i) = {} THEN << >>
                     ELSE LET j == CHOOSE e \in Ends(i) : TRUE
                          IN SubSeq(text, i, j + Len(CoastWord)) ]
    IN SelectSeq(found, LAMBDA m : m # << >>)

\* \b(state)\b\b(city)\b matches at index i: between the two names the text
\* must pass from a word character to none, or back
StateCityAt(text, i, state, city) ==
    LET mid == i + Len(state) IN
    /\ mid + Len(city) - 1 <= Len(text)
    /\ Lower(SubSeq(text, i, mid - 1)) = Lower(state)
    /\ Lower(SubSeq(text, mid, mid + Len(city) - 1)) = Lower(city)
    /\ (i = 1 \/ ~IsWordChar(text[i - 1]))
    /\ IsWordChar(text[mid - 1]) # IsWordChar(text[mid])
    /\ (mid + Len(city) > Len(text) \/ ~IsWordChar(text[mid + Len(city)]))

\* re.finditer of the pattern of lines 102-103; group(1) is the state
FindStateCity(text) ==
    LET Hits(i) == { k \in DOMAIN StateNames :
                       \E c \in DOMAIN CityNames :
                           StateCityAt(text, i, StateNames[k], CityNames[c]) }
        found == [ i \in DOMAIN text |->
                     IF Hits(i) = {} THEN << >>
                     ELSE LET k == CHOOSE h \in Hits(i) : \A g \in Hits(i) : h <= g
                          IN SubSeq(text, i, i + Len(StateNames[k]) - 1) ]
    IN SelectSeq(found, LAMBDA m : m # << >>)

\* list(dict.fromkeys(xs)): the first of each, in order
RECURSIVE FirstOccurrences(_, _)
FirstOccurrences(xs, i) ==
    IF i > Len(xs) THEN << >>
    ELSE (IF \E j \in 1..(i - 1) : xs[j] = xs[i] THEN << >> ELSE << xs[i] >>)
         \o FirstOccurrences(xs, i + 1)

\* location.strip() kept when longer than 2 characters
MinLocationLen == 2

ExtractLocations(text) ==
    LET matches == FindCoast(text) \o FindAll(text, SeaNames)
                   \o FindStateCity(text)
        stripped == [ i \in DOMAIN matches |-> Strip(matches[i]) ]
        locations == SelectSeq(stripped, LAMBDA l : Len(l) > MinLocationLen)
    IN FirstOccurrences(locations, 1)

-----------------------------------------------------------------------------
(* _geocode_location (incois_scraper.py 150-172)                           *)
(* A coordinate result is [some, lat, lng]; NoCoords is Python's None.     *)

NoCoords == [some |-> FALSE, lat |-> 0, lng |-> 0]
Coords(la, lo) == [some |-> TRUE, lat |-> la, lng |-> lo]

BayOfBengal == Coords(150000, 870000)
ArabianSea == Coords(150000, 680000)
IndianOcean == Coords(100000, 750000)

\* lookup is what the external geocoder gives for "<location>, India": a
\* coordinate, or NoCoords (no match, or an exception, which is caught).
GeocodeLocation(location, lookup) ==
    LET location_lower == Lower(location) IN
    IF Contains(location_lower, Lower(SeaNames[1])) THEN BayOfBengal
    ELSE IF Contains(location_lower, Lower(SeaNames[2])) THEN ArabianSea
    ELSE IF Contains(location_lower, Lower(SeaNames[3])) THEN IndianOcean
    ELSE lookup

-----------------------------------------------------------------------------
(* Alert (incois_scraper.py 38-47) and the two places that build one.      *)
(* An optional float is <<"null", 0>> or <<"num", n>>.                     *)

Null == <<"null", 0>>
Num(n) == <<"num", n>>

EmergencyMark == <<"U+1F6A8", " ">>
WarningMark == <<"U+26A0", "U+FE0F", " ">>

\* title=f"<mark> {title}" by severity
MarkedTitle(severity, title) ==
    IF severity = "emergency" THEN EmergencyMark \o title
    ELSE IF severity = "warning" THEN WarningMark \o title
    ELSE title

\* lat, lng = None, None; if locations: coords = geocode(locations[0]);
\* if coords: lat, lng = coords
LatLngOf(text, lookup) ==
    LET locations == ExtractLocations(text)
        coords == IF locations = << >> THEN NoCoords
                  ELSE GeocodeLocation(locations[1], lookup)
    IN IF coords.some THEN [lat |-> Num(coords.lat), lng |-> Num(coords.lng)]
       ELSE [lat |-> Null, lng |-> Null]

MakeAlert(title, message, severity, ll) ==
    [ title |-> title, message |-> message, severity |-> severity,
      source |-> "INCOIS", lat |-> ll.lat, lng |-> ll.lng, time |-> "now" ]

\* one entry of feed.entries: the alerts it appends (none or one)
RssEntryAlerts(entry, lookup) ==
    LET title == CleanText(entry.title)
        description == CleanText(IF entry.description # << >>
                                 THEN entry.description ELSE entry.summary)
    IN IF title # << >> \/ description # << >>
       THEN LET full_text == title \o <<" ">> \o description
                severity == DetermineSeverity(full_text)
            IN << MakeAlert(MarkedTitle(severity, title),
                            IF description # << >> THEN description ELSE title,
                            severity, LatLngOf(full_text, lookup)) >>
       ELSE << >>

\* re.split(r'[.!?]+', content)[0]
FirstSentence(content) ==
    LET ends == { i \in DOMAIN content : content[i] \in {".", "!", "?"} } IN
    IF ends = {} THEN content
    ELSE SubSeq(content, 1, (CHOOSE i \in ends : \A j \in ends : i <= j) - 1)

MinContentLen == 30
TitleLen == 100
KeyLen == 100         \* alert.message[:100], line 404
PerPageLimit == 10

\* one cleaned, accepted content of a page: the alert it appends
PageContentAlert(content, lookup) ==
    LET title == Take(FirstSentence(content), TitleLen)
        severity == DetermineSeverity(content)
    IN MakeAlert(MarkedTitle(severity, title), content, severity,
                 LatLngOf(content, lookup))

-----------------------------------------------------------------------------
(* _generate_sample_alerts (incois_scraper.py 329-363) and the single      *)
(* fallback alert of main (incois_scraper.py 474-484)                      *)

SampleTitle1 ==
    <<"U+1F6A8"," ","H","i","g","h"," ","W","a","v","e"," ","A","l","e","r","t"," ","-"," ","B","a",
       "y"," ","o","f"," ","B","e","n","g","a","l">>
SampleMessage1 ==
    <<"S","e","a"," ","c","o","n","d","i","t","i","o","n","s"," ","a","r","e"," ","r","o","u","g","h",
       " ","t","o"," ","v","e","r","y"," ","r","o","u","g","h"," ","w","i","t","h"," ","w","a","v","e",
       " ","h","e","i","g","h","t","s"," ","o","f"," ","3","-","4"," ","m","e","t","e","r","s"," ","e",
       "x","p","e","c","t","e","d"," ","a","l","o","n","g"," ","A","n","d","h","r","a"," ","P","r","a",
       "d","e","s","h"," ","a","n","d"," ","O","d","i","s","h","a"," ","c","o","a","s","t","s","."," ",
       "F","i","s","h","e","r","m","e","n"," ","a","r","e"," ","a","d","v","i","s","e","d"," ","n","o",
       "t"," ","t","o"," ","v","e","n","t","u","r","e"," ","i","n","t","o"," ","t","h","e"," ","s","e",
       "a",".">>
SampleTitle2 ==
    <<"U+26A0","U+FE0F"," ","O","c","e","a","n"," ","S","t","a","t","e"," ","F","o","r","e","c","a",
       "s","t">>
SampleMessage2 ==
    <<"M","o","d","e","r","a","t","e"," ","s","e","a"," ","c","o","n","d","i","t","i","o","n","s"," ",
       "e","x","p","e","c","t","e","d"," ","a","l","o","n","g"," ","T","a","m","i","l"," ","N","a","d",
       "u"," ","c","o","a","s","t"," ","w","i","t","h"," ","w","a","v","e"," ","h","e","i","g","h","t",
       "s"," ","o","f"," ","1",".","5","-","2",".","5"," ","m","e","t","e","r","s","."," ","L","i","g",
       "h","t"," ","t","o"," ","m","o","d","e","r","a","t","e"," ","r","a","i","n","f","a","l","l"," ",
       "p","r","e","d","i","c","t","e","d",".">>
SampleTitle3 ==
    <<"U+1F6A8"," ","C","y","c","l","o","n","e"," ","W","a","r","n","i","n","g"," ","-"," ","A","r",
       "a","b","i","a","n"," ","S","e","a">>
SampleMessage3 ==
    <<"A"," ","d","e","e","p"," ","d","e","p","r","e","s","s","i","o","n"," ","i","n"," ","A","r","a",
       "b","i","a","n"," ","S","e","a"," ","i","s"," ","l","i","k","e","l","y"," ","t","o"," ","i","n",
       "t","e","n","s","i","f","y"," ","i","n","t","o"," ","a"," ","c","y","c","l","o","n","i","c"," ",
       "s","t","o","r","m","."," ","C","o","a","s","t","a","l"," ","a","r","e","a","s"," ","o","f"," ",
       "G","u","j","a","r","a","t"," ","a","n","d"," ","M","a","h","a","r","a","s","h","t","r","a"," ",
       "a","d","v","i","s","e","d"," ","t","o"," ","t","a","k","e"," ","p","r","e","c","a","u","t","i",
       "o","n","a","r","y"," ","m","e","a","s","u","r","e","s",".">>
FallbackTitle ==
    <<"U+1F6A8"," ","I","N","C","O","I","S"," ","A","l","e","r","t"," ","S","y","s","t","e","m"," ",
       "A","c","t","i","v","e">>
FallbackMessage ==
    <<"I","N","C","O","I","S"," ","d","i","s","a","s","t","e","r"," ","a","l","e","r","t"," ","m","o",
       "n","i","t","o","r","i","n","g"," ","s","y","s","t","e","m"," ","i","s"," ","o","p","e","r","a",
       "t","i","o","n","a","l","."," ","C","h","e","c","k"," ","h","t","t","p","s",":","/","/","i","n",
       "c","o","i","s",".","g","o","v",".","i","n"," ","f","o","r"," ","l","a","t","e","s","t"," ","u",
       "p","d","a","t","e","s",".">>

GenerateSampleAlerts ==
    << [ title |-> SampleTitle1, message |-> SampleMessage1, severity |-> "warning",
         source |-> "INCOIS", lat |-> Num(177000), lng |-> Num(833000), time |-> "now" ],
       [ title |-> SampleTitle2, message |-> SampleMessage2, severity |-> "info",
         source |-> "INCOIS", lat |-> Num(130827), lng |-> Num(802707), time |-> "now" ],
       [ title |-> SampleTitle3, message |-> SampleMessage3, severity |-> "emergency",
         source |-> "INCOIS", lat |-> Num(200000), lng |-> Num(700000), time |-> "now" ] >>

FallbackAlert ==
    [ title |-> FallbackTitle, message |-> FallbackMessage, severity |-> "info",
      source |-> "INCOIS", lat |-> Num(177000), lng |-> Num(833000), time |-> "now" ]

-----------------------------------------------------------------------------
(* The sources (incois_scraper.py 59-79)                                   *)

potential_feeds ==
    << "https://incois.gov.in/portal/rss/highwave.xml",
       "https://incois.gov.in/portal/rss/tsunami.xml",
       "https://incois.gov.in/portal/rss/alerts.xml",
       "https://incois.gov.in/rss/highwave.xml",
       "https://incois.gov.in/rss/tsunami.xml",
       "https://incois.gov.in/rss.xml",
       "https://incois.gov.in/feed.xml" >>

scraping_urls ==
    << "https://incois.gov.in/portal/osf",
       "https://incois.gov.in/portal/tsunami",
       "https://incois.gov.in/portal/highwave",
       "https://incois.gov.in/portal/datainfo/hwforecast.jsp",
       "https://incois.gov.in/portal/datainfo/tsunamiwarning.jsp",
       "https://incois.gov.in/portal/announcements.jsp",
       "https://incois.gov.in" >>

-----------------------------------------------------------------------------
(* The inputs of an ingestion run                                          *)

MaxAll == 5         \* the sources never hand over more alerts than this in all
MaxEntries == 2     \* items of one feed or page

Pad(n) == [ i \in 1..n |-> "x" ]

\* ".xx...x" of KeyLen - 1 characters, then tail: the tail begins at the
\* last character that message[:100] keeps
LongText(tail) == <<".">> \o Pad(KeyLen - 2) \o tail

TextTsunami ==
    <<"T","s","u","n","a","m","i">>
TextCity ==
    <<"<","b",">","H","i","g","h"," ","T","i","d","e","<","/","b",">"," ","C",
       "h","e","n","n","a","i"," ","c","o","a","s","t">>
TextBreak ==
    <<"<","b","r",">">>
TextSea ==
    <<"S","t","o","r","m"," ","s","u","r","g","e"," ","n","e","a","r"," ","B",
       "a","y"," ","o","f"," ","B","e","n","g","a","l","."," ","S","t","a","y",
       " ","a","w","a","y"," ","f","r","o","m"," ","t","h","e"," ","s","e","a">>
TextShort ==
    <<"a","l","e","r","t">>

\* no title, a long description: an alert of severity info with title ""
EntryA == [ title |-> << >>, description |-> LongText(<<"a", "c">>),
            summary |-> << >> ]
\* the same first 100 characters as EntryA up to case, then another tail
EntryB == [ title |-> TextTsunami, description |-> << >>,
            summary |-> LongText(<<"A", "d">>) ]
\* a title only, naming a coast the external geocoder is asked for
EntryCity == [ title |-> TextCity, description |-> << >>, summary |-> << >> ]
\* markup and whitespace only: nothing is left after _clean_text
EntryBlank == [ title |-> TextBreak, description |-> <<" ">>, summary |-> << >> ]

FeedEntries == { EntryA, EntryB, EntryCity, EntryBlank }

\* differs from EntryA's description at the 100th character; its first
\* sentence is empty
ContentDiff == LongText(<<"b">>)

PageContents == { ContentDiff, TextSea, TextShort }

Lookups == { NoCoords, Coords(130827, 802707) }

HttpOk == 200

SeqsUpTo(S, n) == UNION { [1..k -> S] : k \in 0..n }

\* what a source may answer when at most room more alerts fit the bound
Answers(S, room) ==
    { [kind |-> "exception", status_code |-> 0, items |-> << >>, lookup |-> NoCoords] }
    \cup { [kind |-> "response", status_code |-> 404, items |-> << >>, lookup |-> NoCoords] }
    \cup { [kind |-> "response", status_code |-> HttpOk, items |-> es, lookup |-> l] :
             es \in SeqsUpTo(S, Min(MaxEntries, room)), l \in Lookups }


-----------------------------------------------------------------------------
(* The text operators are costly on long texts.  For the entries and       *)
(* contents above their results are tabulated once; the loops below read   *)
(* the tables.                                                             *)

RssEntryTable ==
    { << e, l, RssEntryAlerts(e, l) >> : e \in FeedEntries, l \in Lookups }
RssEntryAlertsOf(entry, lookup) ==
    (CHOOSE t \in RssEntryTable : t[1] = entry /\ t[2] = lookup)[3]

CleanTextTable == { << c, CleanText(c) >> : c \in PageContents }
CleanTextOf(text) == (CHOOSE t \in CleanTextTable : t[1] = text)[2]

PageContentTable ==
    { << t[2], l, PageContentAlert(t[2], l) >> : t \in CleanTextTable, l \in Lookups }
PageContentAlertOf(content, lookup) ==
    (CHOOSE t \in PageContentTable : t[1] = content /\ t[2] = lookup)[3]

-----------------------------------------------------------------------------
(* _try_rss_feed (incois_scraper.py 188-236)                               *)
(* What a source answers is [kind, status_code, items, lookup]: kind       *)
(* "exception" when session.get raises (timeout, connection error), else   *)
(* "response"; items are feed.entries or the page's potential_alerts;      *)
(* lookup is what the external geocoder answers during that visit.         *)

\* the loop over feed.entries (lines 199-229) from index i on
RECURSIVE RssLoop(_, _, _)
RssLoop(entries, i, lookup) ==
    IF i > Len(entries) THEN << >>
    ELSE RssEntryAlertsOf(entries[i], lookup) \o RssLoop(entries, i + 1, lookup)

TryRssFeed(answer) ==
    IF answer.kind = "exception" THEN << >>
    ELSE IF answer.status_code = HttpOk
         THEN RssLoop(answer.items, 1, answer.lookup)
         ELSE << >>

-----------------------------------------------------------------------------
(* _scrape_webpage (incois_scraper.py 238-327), from potential_alerts on   *)

RECURSIVE PageLoop(_, _, _, _, _)
PageLoop(potential_alerts, i, lookup, seen_content, alerts) ==
    IF i > Len(potential_alerts) THEN alerts
    ELSE LET content == CleanTextOf(potential_alerts[i]) IN
         IF content = << >> \/ Len(content) < MinContentLen \/ content \in seen_content
         THEN PageLoop(potential_alerts, i + 1, lookup, seen_content, alerts)
         ELSE LET more == Append(alerts, PageContentAlertOf(content, lookup)) IN
              IF Len(more) >= PerPageLimit THEN more
              ELSE PageLoop(potential_alerts, i + 1, lookup,
                            seen_content \cup {content}, more)

ScrapeWebpage(answer) ==
    IF answer.kind = "exception" THEN << >>
    ELSE IF answer.status_code # HttpOk THEN << >>
    ELSE PageLoop(answer.items, 1, answer.lookup, {}, << >>)

-----------------------------------------------------------------------------
(* fetch_incois_alerts, after the sources (incois_scraper.py 394-419)      *)

\* message_key = alert.message[:100].lower()
MessageKey(alert) == Lower(Take(alert.message, KeyLen))

\* A slip that keeps the last alert of each key instead of the first.
RECURSIVE DedupLoopKeepLast(_, _, _, _)
DedupLoopKeepLast(alerts, i, seen_messages, acc) ==
    IF i > Len(alerts) THEN acc
    ELSE LET message_key == MessageKey(alerts[i]) IN
         IF \A j \in (i + 1)..Len(alerts) : MessageKey(alerts[j]) # message_key
         THEN DedupLoopKeepLast(alerts, i + 1, seen_messages,
                        [acc EXCEPT !.unique = Append(@, alerts[i]),
                                    !.processed = @ + 1])
         ELSE DedupLoopKeepLast(alerts, i + 1, seen_messages,
                        [acc EXCEPT !.skipped = @ + 1])

\* the loop of lines 403-410 from index i on
RECURSIVE DedupLoop(_, _, _, _)
DedupLoop(alerts, i, seen_messages, acc) ==
    IF i > Len(alerts) THEN acc
    ELSE LET message_key == MessageKey(alerts[i]) IN
         IF message_key \notin seen_messages
         THEN DedupLoop(alerts, i + 1, seen_messages \cup {message_key},
                        [acc EXCEPT !.unique = Append(@, alerts[i]),
                                    !.processed = @ + 1])
         ELSE DedupLoop(alerts, i + 1, seen_messages,
                        [acc EXCEPT !.skipped = @ + 1])

\* if not all_alerts: all_alerts = self._generate_sample_alerts()
WithSampleFallback(alerts) ==
    IF alerts = << >> THEN GenerateSampleAlerts ELSE alerts

\* A slip that leaves out both fallbacks to the sample alerts.
FinishFetchWithoutFallback(alerts) ==
    DedupLoop(alerts, 1, {}, [unique |-> << >>, processed |-> 0, skipped |-> 0])

\* lines 394-419: [unique, processed, skipped], the counters starting at 0
FinishFetch(alerts) ==
    LET acc == DedupLoop(WithSampleFallback(alerts), 1, {},
                         [unique |-> << >>, processed |-> 0, skipped |-> 0])
    IN IF acc.unique = << >>
       THEN [acc EXCEPT !.unique = GenerateSampleAlerts,
                        !.processed = Len(GenerateSampleAlerts)]
       ELSE acc

-----------------------------------------------------------------------------
(* alerts.json.  The file is [state, data]: state "absent", "invalid" (cut *)
(* short by a failed write), "notlist" (valid JSON, not an array) or       *)
(* "list", data the array.  An item of the array is                        *)
(*   [kind, title, message, severity, source, lat, lng]                    *)
(* kind "object" or "scalar" (an item that is no mapping).  A text value   *)
(* is <<"absent" | "null" | "str", text>>, a coordinate value is           *)
(* <<"absent" | "null" | "num" | "numstr" | "badstr", n>>.  The "time" key *)
(* the scraper writes is never read by the serving layer and is left out.  *)

Str(s) == <<"str", s>>

\* json.dump of asdict(alert)
JsonOf(alert) ==
    [ kind |-> "object", title |-> Str(alert.title), message |-> Str(alert.message),
      severity |-> Str(alert.severity), source |-> Str(alert.source),
      lat |-> alert.lat, lng |-> alert.lng ]

AbsentFile == [state |-> "absent", data |-> << >>]
InvalidFile == [state |-> "invalid", data |-> << >>]
ListFile(items) == [state |-> "list", data |-> items]

\* with open('alerts.json', 'w') as f: json.dump(alerts, f): "ok", or open
\* raises ("open_failed", the file untouched), or the dump raises after the
\* file was truncated ("dump_failed")
WriteOutcomes == {"ok", "open_failed", "dump_failed"}

\* A slip that never opens the file.
WriteAlertsJsonNotWritten(old, alerts, outcome) == old

WriteAlertsJson(old, alerts, outcome) ==
    IF outcome = "ok" THEN ListFile([ i \in DOMAIN alerts |-> JsonOf(alerts[i]) ])
    ELSE IF outcome = "open_failed" THEN old
    ELSE InvalidFile

-----------------------------------------------------------------------------
(* The values the variables of the other specifications keep               *)

NoResp == [op |-> "none"]

SevIdle == sevText = << >> /\ sevResult = "none"
IngestIdle ==
    /\ pc = "idle" /\ feedIdx = 1 /\ pageIdx = 1 /\ all_alerts = << >>
    /\ returned = << >>
    /\ alerts_processed = 0 /\ alerts_skipped = 0
    /\ raised = "no" /\ writeFailed = FALSE /\ lastFetch = "none"

\* the requests that may be in flight together
Requests == { "r1", "r2" }

\* inserted, skipped, skipped_details at the head of a pass (lines 91-93), and
\* the alerts added to its session
EmptyAcc ==
    [ pending |-> << >>, inserted |-> 0, skipped |-> 0, skipped_details |-> << >> ]

NoResult ==
    [ kind |-> "none", inserted |-> 0, skipped |-> 0, skipped_details |-> << >>,
      error |-> "" ]

\* a request not yet made
IdlePass ==
    [ pc |-> "idle", data |-> << >>, i |-> 1, pass |-> 0, acc |-> EmptyAcc,
      result |-> NoResult, rows |-> << >> ]

PassesIdle == passes = [ r \in Requests |-> IdlePass ] /\ observed = {}

StoreIdle ==
    /\ store = << >> /\ clock = 0 /\ resp = NoResp /\ prev = NoResp
    /\ PassesIdle

-----------------------------------------------------------------------------
(* SpecSeverity: _determine_severity on the texts made of a few words      *)

MaxWords == 3

SeverityWords ==
    { <<"t","s","u","n","a","m","i">>, <<"T","S","U","N","A","M","I"," ">>,
      <<"H","i","g","h"," ">>, <<"T","i","d","e">>, <<"c","a","l","m"," ">>,
      <<"C","y","c","l","o","n","i","c"," ","S","t","o","r","m">>,
      <<"c","y","c","l","o","n">>, <<"e","d"," ","a","l","e","r","t">> }

RECURSIVE Concat(_, _)
Concat(ws, i) == IF i > Len(ws) THEN << >> ELSE ws[i] \o Concat(ws, i + 1)

SeverityTexts == { Concat(ws, 1) : ws \in SeqsUpTo(SeverityWords, MaxWords) }

InitSeverity ==
    /\ sevText \in SeverityTexts /\ sevResult = "none"
    /\ IngestIdle /\ StoreIdle /\ file = AbsentFile

Classify ==
    /\ sevResult = "none"
    /\ sevResult' = DetermineSeverity(sevText)
    /\ UNCHANGED << sevText, ingestVars, storeVars, file >>

NextSeverity == Classify

SpecSeverity == InitSeverity /\ [][NextSeverity]_vars

-----------------------------------------------------------------------------
(* SpecIngest: main() of incois_scraper.py (lines 422-492) and             *)
(* fetch_incois_alerts (lines 365-419), one step per source                *)

EnoughAlerts == 5

InitIngest ==
    /\ pc = "start" /\ feedIdx = 1 /\ pageIdx = 1 /\ all_alerts = << >>
    /\ returned = << >>
    /\ alerts_processed = 0 /\ alerts_skipped = 0
    /\ raised = "no" /\ writeFailed = FALSE /\ lastFetch = "none"
    /\ file = AbsentFile
    /\ SevIdle /\ StoreIdle

\* scraper = INCOISScraper(): the session and the geocoder are built
Construct ==
    /\ pc = "start"
    /\ \/ pc' = "feeds" /\ raised' = raised
       \/ pc' = "fallback" /\ raised' = "exception"
    /\ UNCHANGED << feedIdx, pageIdx, all_alerts, returned, lastFetch,
                    alerts_processed, alerts_skipped, writeFailed, file,
                    sevVars, storeVars >>

\* the fetch raised, timed out (an exception too) or answered another status
\* than 200 (lines 196, 233-234, 246-247, 324-325)
Failed(answer) == answer.kind = "exception" \/ answer.status_code # HttpOk

\* A slip that lets the failure of a feed end the run in main's except.
TryFeedFailureAborts ==
    /\ pc = "feeds"
    /\ \E answer \in Answers(FeedEntries, MaxAll - Len(all_alerts)) :
         /\ all_alerts' = all_alerts \o TryRssFeed(answer)
         /\ lastFetch' = IF Failed(answer) THEN "failed" ELSE "answered"
         /\ pc' = IF Failed(answer) THEN "fallback"
                  ELSE IF feedIdx + 1 > Len(potential_feeds) THEN "pages" ELSE "feeds"
         /\ raised' = IF Failed(answer) THEN "exception" ELSE raised
    /\ feedIdx' = feedIdx + 1
    /\ UNCHANGED << pageIdx, returned, alerts_processed, alerts_skipped,
                    writeFailed, file, sevVars, storeVars >>

\* one iteration of the loop over potential_feeds (lines 371-378)
TryFeed ==
    /\ pc = "feeds"
    /\ \E answer \in Answers(FeedEntries, MaxAll - Len(all_alerts)) :
         /\ all_alerts' = all_alerts \o TryRssFeed(answer)
         /\ lastFetch' = IF Failed(answer) THEN "failed" ELSE "answered"
    /\ feedIdx' = feedIdx + 1
    /\ pc' = IF feedIdx' > Len(potential_feeds) THEN "pages" ELSE "feeds"
    /\ UNCHANGED << pageIdx, returned, alerts_processed, alerts_skipped, raised,
                    writeFailed, file, sevVars, storeVars >>

\* one iteration of the loop over scraping_urls (lines 381-392)
ScrapePage ==
    /\ pc = "pages"
    /\ \E answer \in Answers(PageContents, MaxAll - Len(all_alerts)) :
         /\ all_alerts' = all_alerts \o ScrapeWebpage(answer)
         /\ lastFetch' = IF Failed(answer) THEN "failed" ELSE "answered"
    /\ pageIdx' = pageIdx + 1
    /\ pc' = IF Len(all_alerts') >= EnoughAlerts \/ pageIdx' > Len(scraping_urls)
             THEN "dedup" ELSE "pages"
    /\ UNCHANGED << feedIdx, returned, alerts_processed, alerts_skipped, raised,
                    writeFailed, file, sevVars, storeVars >>

\* lines 394-419, and "if not alerts: return" of main (lines 431-433).  The
\* locals of fetch_incois_alerts end with its return.
Finish ==
    /\ pc = "dedup"
    /\ LET r == FinishFetch(all_alerts) IN
         /\ returned' = r.unique
         /\ alerts_processed' = r.processed
         /\ alerts_skipped' = r.skipped
         /\ pc' = IF r.unique = << >> THEN "done" ELSE "write"
    /\ feedIdx' = 1 /\ pageIdx' = 1 /\ all_alerts' = << >> /\ lastFetch' = "none"
    /\ UNCHANGED << raised, writeFailed, file, sevVars, storeVars >>

\* lines 436-446: a failed write is logged and main returns
WriteFile ==
    /\ pc = "write"
    /\ \E outcome \in WriteOutcomes :
         /\ file' = WriteAlertsJson(file, returned, outcome)
         /\ writeFailed' = (outcome # "ok")
         /\ pc' = IF outcome = "ok" THEN "summary" ELSE "done"
    /\ UNCHANGED << feedIdx, pageIdx, all_alerts, returned, lastFetch,
                    alerts_processed, alerts_skipped, raised, sevVars, storeVars >>

\* lines 448-463: the summary is printed, or printing raises
Summary ==
    /\ pc = "summary"
    /\ \/ pc' = "done" /\ raised' = raised
       \/ pc' = "fallback" /\ raised' = "exception"
    /\ UNCHANGED << feedIdx, pageIdx, all_alerts, returned, lastFetch,
                    alerts_processed, alerts_skipped, writeFailed, file,
                    sevVars, storeVars >>

\* lines 468-492: except Exception writes the single fallback alert
Fallback ==
    /\ pc = "fallback"
    /\ \E outcome \in WriteOutcomes :
         /\ file' = WriteAlertsJson(file, << FallbackAlert >>, outcome)
         /\ writeFailed' = (writeFailed \/ outcome # "ok")
    /\ pc' = "done"
    /\ UNCHANGED << feedIdx, pageIdx, all_alerts, returned, lastFetch,
                    alerts_processed, alerts_skipped, raised, sevVars, storeVars >>

\* lines 465-467: Ctrl-C while a source is awaited; nothing is written and
\* the locals of fetch_incois_alerts are gone
Interrupt ==
    /\ pc \in {"feeds", "pages"}
    /\ pc' = "done"
    /\ raised' = "interrupt"
    /\ feedIdx' = 1 /\ pageIdx' = 1 /\ all_alerts' = << >> /\ lastFetch' = "none"
    /\ UNCHANGED << returned, alerts_processed, alerts_skipped, writeFailed, file,
                    sevVars, storeVars >>

NextIngest ==
    \/ Construct \/ TryFeed \/ ScrapePage \/ Finish
    \/ WriteFile \/ Summary \/ Fallback \/ Interrupt

SpecIngest == InitIngest /\ [][NextIngest]_vars

-----------------------------------------------------------------------------
(* load_alerts_from_json (main.py 86-155): StoreSync                       *)
(* A row of the Alert table (main.py 34-42) is                             *)
(*   [id, title, message, severity, source, time, lat, lng]                *)
(* time is [pass, seq]: the pass that built the row and the row's place in *)
(* it, which orders the values datetime.utcnow() gave.                     *)

\* item.get(key) is None: the key is missing or holds null
IsNone(v) == v[1] \in {"absent", "null"}

\* "not title": None and "" are falsy
Falsy(v) == IsNone(v) \/ v[2] = << >>

\* float(v) succeeds: a number, or a string spelling one
CanFloat(v) == v[1] \in {"num", "numstr"}

\* float(v): the number as it is, or the number the string spells
FloatOf(v) == Num(v[2])

\* str(item.get(key, default)): a missing key gives the default, a null
\* gives str(None)
StrOr(v, default) ==
    IF v[1] = "absent" THEN default
    ELSE IF v[1] = "null" THEN "None"
    ELSE v[2]

\* the value the ORM is handed for a coordinate that was not coerced
Uncoerced(v) == IF IsNone(v) THEN Null ELSE v

Reason(idx, why) == [idx |-> idx, why |-> why]

\* if lat is not None and lng is not None
NeedsCoercion(lat, lng) == ~IsNone(lat) /\ ~IsNone(lng)

\* A slip that skips a record without coordinates.
CoordsRejectedWhenMissing(lat, lng) ==
    IsNone(lat) \/ IsNone(lng) \/ ~(CanFloat(lat) /\ CanFloat(lng))

\* the try of lines 127-134 ends in "invalid lat/lng"
CoordsRejected(lat, lng) ==
    NeedsCoercion(lat, lng) /\ ~(CanFloat(lat) /\ CanFloat(lng))

\* the body of the loop (lines 110-149) for data[i], i counted from 1; acc is
\* [pending, inserted, skipped, skipped_details]
ProcessItem(item, i, pass, acc) ==
    LET idx == i - 1 IN
    IF item.kind # "object"
    THEN [acc EXCEPT !.skipped = @ + 1,
                     !.skipped_details = Append(@, Reason(idx, "exception"))]
    ELSE IF Falsy(item.title) \/ Falsy(item.message)
    THEN [acc EXCEPT !.skipped = @ + 1,
                     !.skipped_details = Append(@, Reason(idx, "missing title/message"))]
    ELSE IF CoordsRejected(item.lat, item.lng)
    THEN [acc EXCEPT !.skipped = @ + 1,
                     !.skipped_details = Append(@, Reason(idx, "invalid lat/lng"))]
    ELSE LET coerce == NeedsCoercion(item.lat, item.lng)
             alert == [ title |-> item.title[2], message |-> item.message[2],
                        severity |-> StrOr(item.severity, "info"),
                        source |-> StrOr(item.source, "unknown"),
                        time |-> [pass |-> pass, seq |-> i],
                        lat |-> IF coerce THEN FloatOf(item.lat) ELSE Uncoerced(item.lat),
                        lng |-> IF coerce THEN FloatOf(item.lng) ELSE Uncoerced(item.lng) ]
         IN [acc EXCEPT !.pending = Append(@, alert), !.inserted = @ + 1]

\* A slip that leaves the loop at the first record it rejects.
RECURSIVE SyncLoopStopsAtSkip(_, _, _, _)
SyncLoopStopsAtSkip(data, i, pass, acc) ==
    IF i > Len(data) THEN acc
    ELSE LET next == ProcessItem(data[i], i, pass, acc) IN
         IF next.skipped > acc.skipped THEN next
         ELSE SyncLoopStopsAtSkip(data, i + 1, pass, next)

RECURSIVE SyncLoop(_, _, _, _)
SyncLoop(data, i, pass, acc) ==
    IF i > Len(data) THEN acc
    ELSE SyncLoop(data, i + 1, pass, ProcessItem(data[i], i, pass, acc))

\* A slip that leaves the table as it is.
DeleteAllOmitted(table) == table

\* session.query(Alert).delete(); session.commit()
DeleteAll(table) == << >>

\* the greatest rowid of the table, 0 for an empty table
MaxId(table) ==
    IF table = << >> THEN 0
    ELSE CHOOSE m \in { table[i].id : i \in DOMAIN table } :
             \A i \in DOMAIN table : table[i].id <= m

\* what a float column stores of a value it can take
ColumnFloat(v) == IF v = Null THEN Null ELSE Num(v[2])

\* session.commit() of the added alerts: each gets the next rowid
InsertRows(table, pending) ==
    table \o [ k \in DOMAIN pending |->
                 [ id |-> MaxId(table) + k,
                   title |-> pending[k].title, message |-> pending[k].message,
                   severity |-> pending[k].severity, source |-> pending[k].source,
                   time |-> pending[k].time,
                   lat |-> ColumnFloat(pending[k].lat),
                   lng |-> ColumnFloat(pending[k].lng) ] ]

\* a column of type float cannot take a string that spells no number: the
\* flush of such a row raises and the pass ends in the outer except
FlushRaises(pending) ==
    \E k \in DOMAIN pending :
        pending[k].lat[1] = "badstr" \/ pending[k].lng[1] = "badstr"

Counts(acc) ==
    [ kind |-> "counts", inserted |-> acc.inserted, skipped |-> acc.skipped,
      skipped_details |-> acc.skipped_details, error |-> "" ]

ErrorResult(e) ==
    [ kind |-> "error", inserted |-> 0, skipped |-> 0, skipped_details |-> << >>,
      error |-> e ]

\* the whole pass over the file f, run alone: [store, result]
LoadAlertsFromJson(f, table, pass) ==
    IF f.state = "absent" THEN [store |-> table, result |-> ErrorResult("FileNotFoundError")]
    ELSE IF f.state = "invalid" THEN [store |-> table, result |-> ErrorResult("JSONDecodeError")]
    ELSE IF f.state = "notlist" THEN [store |-> table, result |-> ErrorResult("ValueError")]
    ELSE LET cleared == DeleteAll(table)
             acc == SyncLoop(f.data, 1, pass,
                             [ pending |-> << >>, inserted |-> 0, skipped |-> 0,
                               skipped_details |-> << >> ])
         IN IF FlushRaises(acc.pending)
            THEN [store |-> cleared, result |-> ErrorResult("StatementError")]
            ELSE [store |-> InsertRows(cleared, acc.pending), result |-> Counts(acc)]

-----------------------------------------------------------------------------
(* haversine_km (main.py 68-74) and alerts_nearby (main.py 185-209)        *)
(* Distances are whole metres.  The values of haversine_km, which needs    *)
(* sin, cos and atan2, are tabulated for the points of the model; each was *)
(* computed by the code's formula with R = 6371.0 and rounded to a metre.  *)

Chennai == [lat |-> 130827, lng |-> 802707]
OffGujarat == [lat |-> 200000, lng |-> 700000]
NearChennai == [lat |-> 130000, lng |-> 800000]

HaversineTable ==
    { << NearChennai, Chennai, 30732 >>, << NearChennai, OffGujarat, 1319289 >>,
      << Chennai, Chennai, 0 >>, << Chennai, OffGujarat, 1337188 >> }

\* haversine_km(lat1, lon1, lat2, lon2), in metres
HaversineM(lat1, lon1, lat2, lon2) ==
    (CHOOSE t \in HaversineTable :
        /\ t[1] = [lat |-> lat1, lng |-> lon1]
        /\ t[2] = [lat |-> lat2, lng |-> lon2])[3]

MetresPerKm == 1000

\* round(dist, 2): hundredths of a kilometre
Round2(dist) == (dist + 5) \div 10

\* A slip that leaves out the boundary.
WithinRadiusStrict(dist, radius_km) == dist < radius_km * MetresPerKm

\* A slip that inverts the comparison.
WithinRadiusInverted(dist, radius_km) == dist >= radius_km * MetresPerKm

\* if dist <= radius_km
WithinRadius(dist, radius_km) == dist <= radius_km * MetresPerKm

\* the loop of lines 194-205 over the rows read, from index i on
RECURSIVE NearbyLoop(_, _, _, _, _)
NearbyLoop(alerts, i, lat, lng, radius_km) ==
    IF i > Len(alerts) THEN << >>
    ELSE LET a == alerts[i] IN
         IF a.lat = Null \/ a.lng = Null
         THEN NearbyLoop(alerts, i + 1, lat, lng, radius_km)
         ELSE LET dist == HaversineM(lat, lng, a.lat[2], a.lng[2]) IN
              IF WithinRadius(dist, radius_km)
              THEN << [row |-> a, distance_km |-> Round2(dist)] >>
                   \o NearbyLoop(alerts, i + 1, lat, lng, radius_km)
              ELSE NearbyLoop(alerts, i + 1, lat, lng, radius_km)

\* a.time is later than b.time
Later(a, b) ==
    \/ a.time.pass > b.time.pass
    \/ a.time.pass = b.time.pass /\ a.time.seq > b.time.seq
    \/ a.time = b.time /\ a.id > b.id

\* select(Alert).order_by(Alert.time.desc())
OrderByTimeDesc(table) ==
    [ k \in DOMAIN table |->
        table[CHOOSE i \in DOMAIN table :
                Cardinality({ j \in DOMAIN table : Later(table[j], table[i]) }) = k - 1] ]

-----------------------------------------------------------------------------
(* Spec: the serving layer, one request at a time (main.py 159-215)        *)
(* GET /reset-db and GET /last-error are left out: the one removes the     *)
(* database file under an open engine, the other reads the error log.      *)

MaxItems == 2       \* records in alerts.json
MaxPasses == 2      \* StoreSync passes in a run of the model

Title(c) == Str(<< c >>)
Absent == <<"absent", << >> >>
NoCoord == <<"absent", 0>>

\* well-formed, no coordinates, no severity or source key
ItemPlain ==
    [ kind |-> "object", title |-> Title("A"), message |-> Title("m"),
      severity |-> <<"absent", "">>, source |-> <<"absent", "">>,
      lat |-> NoCoord, lng |-> NoCoord ]
\* well-formed, at Chennai; the longitude is a string spelling the number
ItemGeo ==
    [ kind |-> "object", title |-> Title("B"), message |-> Title("m"),
      severity |-> <<"str", "warning">>, source |-> <<"str", "INCOIS">>,
      lat |-> Num(Chennai.lat), lng |-> <<"numstr", Chennai.lng>> ]
\* well-formed, far away, both coordinates numbers
ItemFar ==
    [ kind |-> "object", title |-> Title("C"), message |-> Title("m"),
      severity |-> <<"str", "emergency">>, source |-> <<"null", "">>,
      lat |-> Num(OffGujarat.lat), lng |-> Num(OffGujarat.lng) ]
\* lat given, lng null
ItemLatOnly ==
    [ kind |-> "object", title |-> Title("D"), message |-> Title("m"),
      severity |-> <<"str", "info">>, source |-> <<"str", "INCOIS">>,
      lat |-> Num(Chennai.lat), lng |-> <<"null", 0>> ]
\* both given, lat a string that spells no number
ItemBadPair ==
    [ kind |-> "object", title |-> Title("E"), message |-> Title("m"),
      severity |-> <<"str", "info">>, source |-> <<"str", "INCOIS">>,
      lat |-> <<"badstr", 0>>, lng |-> Num(Chennai.lng) ]
\* an empty title
ItemNoTitle ==
    [ kind |-> "object", title |-> Str(<< >>), message |-> Title("m"),
      severity |-> <<"str", "info">>, source |-> <<"str", "INCOIS">>,
      lat |-> NoCoord, lng |-> NoCoord ]
\* an item that is no mapping, such as a string
ItemScalar ==
    [ kind |-> "scalar", title |-> Absent, message |-> Absent,
      severity |-> <<"absent", "">>, source |-> <<"absent", "">>,
      lat |-> NoCoord, lng |-> NoCoord ]

Items == { ItemPlain, ItemGeo, ItemFar, ItemLatOnly, ItemBadPair, ItemNoTitle,
           ItemScalar }

Files ==
    { AbsentFile, [state |-> "notlist", data |-> << >>] }
    \cup { ListFile(d) : d \in SeqsUpTo(Items, MaxItems) }

\* what a writer may leave in place of the file between two requests
Replacements ==
    { AbsentFile, ListFile(<< >>), ListFile(<< ItemGeo >>),
      ListFile(<< ItemFar, ItemGeo >>), ListFile(<< ItemLatOnly, ItemPlain >>) }

QueryPoints == { NearChennai, Chennai }
Radii == { 0, 200, 1500 }

Response(op, result, rows) ==
    [ op |-> op, result |-> result, rows |-> rows,
      lat |-> 0, lng |-> 0, radius_km |-> 0 ]

Init ==
    /\ file \in Files
    /\ store = << >> /\ clock = 0 /\ resp = NoResp /\ prev = NoResp
    /\ PassesIdle
    /\ SevIdle /\ IngestIdle

\* alerts.json is replaced from outside (the ingestion run, an operator).
\* Replacements between two requests count as one: only the last is read.
Rewrite ==
    /\ clock < MaxPasses
    /\ resp # NoResp
    /\ file' \in Replacements \ {file}
    /\ resp' = NoResp /\ prev' = NoResp
    /\ UNCHANGED << store, clock, sevVars, ingestVars, passes, observed >>

\* GET /reload (lines 211-215)
Reload ==
    /\ clock < MaxPasses
    /\ clock' = clock + 1
    /\ LET r == LoadAlertsFromJson(file, store, clock') IN
         /\ store' = r.store
         /\ resp' = Response("reload", r.result, << >>)
    /\ prev' = resp
    /\ UNCHANGED << file, sevVars, ingestVars, passes, observed >>

\* GET /alerts (lines 172-183)
ApiAlerts ==
    /\ clock < MaxPasses
    /\ clock' = clock + 1
    /\ LET r == LoadAlertsFromJson(file, store, clock') IN
         /\ store' = r.store
         /\ resp' = Response("alerts", r.result, OrderByTimeDesc(r.store))
    /\ prev' = resp
    /\ UNCHANGED << file, sevVars, ingestVars, passes, observed >>

\* GET / and GET /db-view (lines 159-170, 230-239): the same rows, rendered
Home ==
    /\ clock < MaxPasses
    /\ clock' = clock + 1
    /\ LET r == LoadAlertsFromJson(file, store, clock') IN
         /\ store' = r.store
         /\ resp' = Response("home", r.result, OrderByTimeDesc(r.store))
    /\ prev' = resp
    /\ UNCHANGED << file, sevVars, ingestVars, passes, observed >>

\* GET /alerts-nearby?lat=..&lng=..&radius_km=.. (lines 185-209)
AlertsNearby ==
    /\ clock < MaxPasses
    /\ clock' = clock + 1
    /\ \E q \in QueryPoints, radius_km \in Radii :
         LET r == LoadAlertsFromJson(file, store, clock') IN
           /\ store' = r.store
           /\ resp' = [ op |-> "nearby", result |-> r.result,
                        rows |-> NearbyLoop(r.store, 1, q.lat, q.lng, radius_km),
                        lat |-> q.lat, lng |-> q.lng, radius_km |-> radius_km ]
    /\ prev' = resp
    /\ UNCHANGED << file, sevVars, ingestVars, passes, observed >>

Next == Rewrite \/ Reload \/ ApiAlerts \/ Home \/ AlertsNearby

Spec == Init /\ [][Next]_vars

-----------------------------------------------------------------------------
(* SpecPasses: two requests at a time (main.py 86-155, 172-209).  The      *)
(* routes are plain functions, which the framework runs on worker threads, *)
(* and each pass works in a Session of its own: what one has not committed *)
(* no other reads.  A request is the steps                                 *)
(*   Open          the file is read and checked            (lines 96-103)  *)
(*   DeleteCommit  the table is emptied, and committed     (lines 107-108) *)
(*   AddItem       one record is checked and added to the session          *)
(*                 (lines 110-149); nothing reaches the table              *)
(*   InsertCommit  the added alerts are written, and committed (line 150)  *)
(*   Select        the route reads the table               (lines 177-179, *)
(*                 190-192)                                                *)
(* and the steps of two requests interleave freely.  The file stays as it  *)
(* is.  A commit that finds the database locked is left out.               *)

\* the files of SpecPasses
PassFiles ==
    { AbsentFile }
    \cup { ListFile(d) :
             d \in SeqsUpTo({ ItemPlain, ItemGeo, ItemLatOnly, ItemNoTitle }, MaxItems) }

InitPasses ==
    /\ file \in PassFiles
    /\ store = << >> /\ clock = 0 /\ resp = NoResp /\ prev = NoResp
    /\ passes = [ r \in Requests |-> IdlePass ]
    /\ observed = { << >> }
    /\ SevIdle /\ IngestIdle

\* lines 96-103: a file that cannot be read as an array ends the pass in the
\* outer except, and the route goes on to read the table
Open(r) ==
    /\ passes[r].pc = "idle"
    /\ clock' = clock + 1
    /\ passes' =
         [ passes EXCEPT ![r] =
             IF file.state = "list"
             THEN [ @ EXCEPT !.pc = "delete", !.data = file.data, !.pass = clock' ]
             ELSE [ @ EXCEPT !.pc = "select", !.pass = clock',
                             !.result = LoadAlertsFromJson(file, store, clock').result ] ]
    /\ UNCHANGED << file, store, observed, resp, prev, sevVars, ingestVars >>

\* lines 107-108
DeleteCommit(r) ==
    /\ passes[r].pc = "delete"
    /\ store' = DeleteAll(store)
    /\ observed' = observed \cup { store' }
    /\ passes' = [ passes EXCEPT ![r].pc = "items" ]
    /\ UNCHANGED << file, clock, resp, prev, sevVars, ingestVars >>

\* A slip that commits each alert as it is added.
AddItemCommitted(r) ==
    /\ passes[r].pc = "items"
    /\ passes[r].i <= Len(passes[r].data)
    /\ LET acc == ProcessItem(passes[r].data[passes[r].i], passes[r].i,
                              passes[r].pass, passes[r].acc)
       IN /\ store' = InsertRows(store, acc.pending)
          /\ passes' = [ passes EXCEPT ![r] =
                           [ @ EXCEPT !.acc = [ acc EXCEPT !.pending = << >> ],
                                      !.i = @ + 1 ] ]
    /\ observed' = observed \cup { store' }
    /\ UNCHANGED << file, clock, resp, prev, sevVars, ingestVars >>

\* one iteration of the loop of lines 110-149
AddItem(r) ==
    /\ passes[r].pc = "items"
    /\ passes[r].i <= Len(passes[r].data)
    /\ passes' =
         [ passes EXCEPT ![r] =
             [ @ EXCEPT !.acc = ProcessItem(passes[r].data[passes[r].i], passes[r].i,
                                            passes[r].pass, passes[r].acc),
                        !.i = @ + 1 ] ]
    /\ UNCHANGED << file, store, clock, observed, resp, prev, sevVars, ingestVars >>

\* line 150, after the last record: the rows are written in one transaction
InsertCommit(r) ==
    /\ passes[r].pc = "items"
    /\ passes[r].i > Len(passes[r].data)
    /\ IF FlushRaises(passes[r].acc.pending)
       THEN /\ store' = store
            /\ passes' = [ passes EXCEPT ![r] =
                             [ @ EXCEPT !.pc = "select",
                                        !.result = ErrorResult("StatementError") ] ]
       ELSE /\ store' = InsertRows(store, passes[r].acc.pending)
            /\ passes' = [ passes EXCEPT ![r] =
                             [ @ EXCEPT !.pc = "select",
                                        !.result = Counts(passes[r].acc) ] ]
    /\ observed' = observed \cup { store' }
    /\ UNCHANGED << file, clock, resp, prev, sevVars, ingestVars >>

\* select(Alert) of the route, after its own pass
Select(r) ==
    /\ passes[r].pc = "select"
    /\ passes' = [ passes EXCEPT ![r] = [ @ EXCEPT !.pc = "done", !.rows = store ] ]
    /\ UNCHANGED << file, store, clock, observed, resp, prev, sevVars, ingestVars >>

NextPasses ==
    \E r \in Requests :
        Open(r) \/ DeleteCommit(r) \/ AddItem(r) \/ InsertCommit(r) \/ Select(r)

SpecPasses == InitPasses /\ [][NextPasses]_vars

-----------------------------------------------------------------------------
(* Claims about _determine_severity, under SpecSeverity                    *)

\* text contains, ignoring case, one of the keywords
HasKeyword(text, keywords) ==
    \E k \in DOMAIN keywords : Contains(Lower(text), Lower(keywords[k]))

\* C8: once a text is classified, the result is emergency if the text
\* contains any emergency keyword (whether or not it also contains a warning
\* keyword), warning if it contains no emergency keyword but a warning
\* keyword, and info if it contains neither.
C8_SeverityPrecedence ==
    sevResult # "none" =>
        LET e == HasKeyword(sevText, EmergencyKeywords)
            w == HasKeyword(sevText, WarningKeywords)
        IN /\ e => sevResult = "emergency"
           /\ (~e /\ w) => sevResult = "warning"
           /\ (~e /\ ~w) => sevResult = "info"

\* a text holding an emergency and a warning keyword was classified
C8_Witness ==
    /\ sevResult = "emergency"
    /\ HasKeyword(sevText, EmergencyKeywords)
    /\ HasKeyword(sevText, WarningKeywords)

-----------------------------------------------------------------------------
(* Claims about the ingestion run, under SpecIngest                        *)

\* the indices of alerts whose key no earlier alert has
FirstOfKey(alerts) ==
    { i \in DOMAIN alerts :
        \A j \in 1..(i - 1) : MessageKey(alerts[j]) # MessageKey(alerts[i]) }

\* the subsequence of alerts at the indices of keep, in order
SubsequenceAt(alerts, keep) ==
    [ k \in 1..Cardinality(keep) |->
        alerts[CHOOSE i \in keep : Cardinality({ j \in keep : j <= i }) = k] ]

\* C5: whatever the sources handed over, the step that ends
\* fetch_incois_alerts returns a non-empty list, and returns exactly the
\* sample alerts when no source contributed an alert.
C5_NonEmptyIngestion ==
    [][ pc = "dedup" =>
          /\ returned' # << >>
          /\ all_alerts = << >> => returned' = GenerateSampleAlerts ]_vars

\* no source contributed, and the samples were returned
C5_Witness ==
    pc = "write" /\ returned = GenerateSampleAlerts /\ alerts_skipped = 0

\* C7: the de-duplication step returns the first alert of each key
\* (lower-case of message[:100]) in the original order, counts every kept
\* alert as processed and every dropped alert as skipped.
C7_Deduplication ==
    [][ (pc = "dedup" /\ all_alerts # << >>) =>
          /\ returned' = SubsequenceAt(all_alerts, FirstOfKey(all_alerts))
          /\ alerts_processed' = Len(returned')
          /\ alerts_skipped' = Len(all_alerts) - Len(returned') ]_vars

\* two alerts whose messages agree on the first 100 characters up to case
\* met: one was dropped; and an alert differing at the 100th was kept
C7_Witness ==
    /\ pc = "write" /\ alerts_skipped > 0 /\ Len(returned) >= 2
    /\ \E i, j \in DOMAIN returned :
         /\ i # j
         /\ Take(returned[i].message, KeyLen - 1) = Take(returned[j].message, KeyLen - 1)

\* C10 as claimed: every alert of the run has a non-empty title and a
\* non-empty message.
C10_TitleAndMessageNonEmpty ==
    \A a \in Range(all_alerts) \cup Range(returned) :
        a.title # << >> /\ a.message # << >>

\* C6 as claimed: when the run has ended, however it ended, alerts.json
\* holds an array of at least one alert, and holds the single fallback alert
\* when the run raised.
C6_FileAlwaysLeft ==
    pc = "done" =>
        /\ file.state = "list" /\ Len(file.data) >= 1
        /\ raised = "exception" => file.data = << JsonOf(FallbackAlert) >>

\* C6 amended: the same, for a run that was not interrupted by the user and
\* in which no write of alerts.json failed.
C6_FileLeftUnlessWriteFails ==
    (pc = "done" /\ raised # "interrupt" /\ ~writeFailed) =>
        /\ file.state = "list" /\ Len(file.data) >= 1
        /\ raised = "exception" => file.data = << JsonOf(FallbackAlert) >>

\* the run raised after its own file was written, and the fallback replaced it
C6_Witness ==
    /\ pc = "done" /\ raised = "exception" /\ ~writeFailed
    /\ returned # << >>
    /\ file.data = << JsonOf(FallbackAlert) >>

-----------------------------------------------------------------------------
(* Claims about StoreSync and the queries, checked under Spec              *)

\* the last request ran a pass that ended with counts, over the file as it is
SyncCompleted == resp.op # "none" /\ resp.result.kind = "counts"

\* the record has lat without lng, or a lat or lng that spells no number
BadCoordinates(item) ==
    /\ item.kind = "object"
    /\ \/ ~IsNone(item.lat) /\ IsNone(item.lng)
       \/ ~IsNone(item.lat) /\ ~CanFloat(item.lat)
       \/ ~IsNone(item.lng) /\ ~CanFloat(item.lng)

SkippedIdx(result) ==
    { result.skipped_details[k].idx : k \in DOMAIN result.skipped_details }

\* C1: after a pass of StoreSync, every record of the input with lat but no
\* lng, or with a lat or lng that is no number, has a skip reason carrying its
\* index, and no row of the store has a lat without a lng.
C1_HalfCoordinatesSkipped ==
    SyncCompleted =>
        /\ \A i \in DOMAIN file.data :
               BadCoordinates(file.data[i]) => (i - 1) \in SkippedIdx(resp.result)
        /\ \A k \in DOMAIN store : store[k].lat # Null => store[k].lng # Null

Paired(a) == (a.lat = Null) <=> (a.lng = Null)

\* C2: in every state, each row of the store and each alert of the ingestion
\* run has lat and lng both given or both null.
C2_CoordinatePairing ==
    /\ \A k \in DOMAIN store : Paired(store[k])
    /\ \A k \in DOMAIN all_alerts : Paired(all_alerts[k])
    /\ \A k \in DOMAIN returned : Paired(returned[k])

\* non-empty title and message, lat and lng both numbers or both null
WellFormed(item) ==
    /\ item.kind = "object"
    /\ ~Falsy(item.title) /\ ~Falsy(item.message)
    /\ \/ IsNone(item.lat) /\ IsNone(item.lng)
       \/ item.lat[1] = "num" /\ item.lng[1] = "num"

WellFormedFile ==
    file.state = "list" /\ \A i \in DOMAIN file.data : WellFormed(file.data[i])

\* C3: over a file of N well-formed records, every pass of StoreSync returns
\* inserted = N, skipped = 0 and no skip reason, and a list-all query, also
\* one that follows a reload of the same file, returns N records.
C3_RoundTrip ==
    (WellFormedFile /\ resp.op # "none") =>
        /\ resp.result = [ kind |-> "counts", inserted |-> Len(file.data),
                           skipped |-> 0, skipped_details |-> << >>, error |-> "" ]
        /\ resp.op = "alerts" => Len(resp.rows) = Len(file.data)
        /\ prev.op # "none" => prev.result = resp.result

C3_Witness ==
    /\ WellFormedFile /\ Len(file.data) = MaxItems
    /\ prev.op = "reload" /\ prev.result.inserted = MaxItems
    /\ resp.op = "alerts" /\ Len(resp.rows) = MaxItems

\* the records of data that the pass did not skip, in input order
AcceptedOf(data, result) ==
    LET kept == { i \in DOMAIN data : (i - 1) \notin SkippedIdx(result) }
        nth(k) == CHOOSE i \in kept : Cardinality({ j \in kept : j < i }) = k - 1
    IN [ k \in 1..Cardinality(kept) |-> data[nth(k)] ]

\* a row without its id and its timestamp
ContentOf(row) ==
    << row.title, row.message, row.severity, row.source, row.lat, row.lng >>

Contents(table) == [ k \in DOMAIN table |-> ContentOf(table[k]) ]

\* the row holds the record
HoldsRecord(row, item) ==
    /\ row.title = item.title[2] /\ row.message = item.message[2]
    /\ IsNone(item.lat) <=> row.lat = Null
    /\ ~IsNone(item.lat) => row.lat[2] = item.lat[2]
    /\ IsNone(item.lng) <=> row.lng = Null
    /\ ~IsNone(item.lng) => row.lng[2] = item.lng[2]

StoreIsAcceptedInput ==
    SyncCompleted =>
        LET accepted == AcceptedOf(file.data, resp.result) IN
        /\ Len(store) = Len(accepted) /\ Len(store) = resp.result.inserted
        /\ \A k \in DOMAIN store :
               HoldsRecord(store[k], accepted[k]) /\ store[k].time.pass = clock

SameInputSameStore ==
    (resp.op # "none" /\ resp'.op # "none" /\ file' = file)
        => Contents(store') = Contents(store)

\* C4: after a pass of StoreSync that ran to completion the store holds the
\* accepted records of the input, in input order, and only rows of that pass;
\* a second pass over the same input leaves the same contents, ids and
\* timestamps aside.
C4_ReplaceAll == [] StoreIsAcceptedInput /\ [][SameInputSameStore]_vars

C4_Witness ==
    /\ SyncCompleted /\ prev.op # "none" /\ prev.result.kind = "counts"
    /\ Len(store) = MaxItems /\ resp.result.skipped = 0
    /\ clock = MaxPasses

\* the alerts of a proximity response, timestamps aside
NearbySet(r) ==
    { << ContentOf(r.rows[k].row), r.rows[k].row.id, r.rows[k].distance_km >> :
        k \in DOMAIN r.rows }

SamePoint(a, b) == a.op = "nearby" /\ b.op = "nearby" /\ a.lat = b.lat /\ a.lng = b.lng

\* C9: of two proximity queries in a row on the same point and the same file,
\* the one with the smaller radius returns no alert that the other does not.
C9_RadiusMonotonic ==
    SamePoint(prev, resp) =>
        /\ prev.radius_km <= resp.radius_km => NearbySet(prev) \subseteq NearbySet(resp)
        /\ resp.radius_km <= prev.radius_km => NearbySet(resp) \subseteq NearbySet(prev)

C9_Witness ==
    /\ SamePoint(prev, resp) /\ prev.radius_km < resp.radius_km
    /\ Len(prev.rows) = 1 /\ Len(resp.rows) = 2

-----------------------------------------------------------------------------
(* Claims about requests in flight together, checked under SpecPasses      *)

\* the pass of request r was committed with counts
Committed(r) == passes[r].result.kind = "counts"

\* the tables read: by a reader at any commit, and by the requests themselves
TablesRead == observed \cup { passes[r].rows : r \in { q \in Requests : passes[q].pc = "done" } }

\* table holds some, not all, of the rows that the pass of r inserts
PartlyRepopulated(table, r) ==
    /\ 0 < Len(table) /\ Len(table) < passes[r].result.inserted
    /\ \A k \in DOMAIN table :
         \E j \in DOMAIN passes[r].data :
            /\ passes[r].data[j].kind = "object"
            /\ table[k].title = passes[r].data[j].title[2]

\* C11 as claimed: a reader of the table at every commit of a pass that
\* inserts two rows or more has read an empty table and a table that holds
\* some, not all, of these rows.
C11_EmptyAndPartialObservable ==
    \A r \in Requests :
        (Committed(r) /\ passes[r].result.inserted >= 2) =>
            /\ << >> \in observed
            /\ \E table \in observed : PartlyRepopulated(table, r)

\* C11 amended: a read that falls into a pass may find the table empty, and
\* never finds it partly repopulated: no table read holds some but not all
\* of the rows a committed pass inserts.
C11_ReadsNeverPartial ==
    \A r \in Requests :
        Committed(r) => \A table \in TablesRead : ~PartlyRepopulated(table, r)

\* a request whose own pass inserted two rows read an empty table: the other
\* request had emptied it in between
C11_Witness ==
    \E r \in Requests :
        /\ passes[r].pc = "done" /\ Committed(r)
        /\ passes[r].result.inserted >= 2
        /\ passes[r].rows = << >>

\* C12: once the passes of both requests, over the same array, have been
\* committed, the table holds each accepted record of the array once: as
\* many rows as one pass inserted, no two of them of the same input index.
C12_NoDuplicateRows ==
    (\A r \in Requests : Committed(r) /\ passes[r].pc \in {"select", "done"}) =>
        /\ \A r \in Requests : Len(store) = passes[r].result.inserted
        /\ \A j, k \in DOMAIN store : j # k => store[j].time.seq # store[k].time.seq

-----------------------------------------------------------------------------
(* Further claims about the queries and StoreSync, checked under Spec      *)

\* the row has both coordinates and lies within r.radius_km of the point of r
Selected(a, r) ==
    /\ a.lat # Null /\ a.lng # Null
    /\ HaversineM(r.lat, r.lng, a.lat[2], a.lng[2]) <= r.radius_km * MetresPerKm

\* C13: the alerts a proximity query returns are the rows of the table, in
\* table order, that have both coordinates and lie at a distance of at most
\* radius_km, the boundary included; a row that lacks a coordinate is left
\* out and the query still answers with its list.
C13_NearbySelection ==
    resp.op = "nearby" =>
        [ k \in DOMAIN resp.rows |-> resp.rows[k].row ]
            = SelectSeq(store, LAMBDA a : Selected(a, resp))

\* a query of radius 0 at the place of a row returned that row, the table
\* holding also a row with lat and without lng
C13_Witness ==
    /\ resp.op = "nearby" /\ resp.radius_km = 0 /\ Len(resp.rows) = 1
    /\ \E k \in DOMAIN store : store[k].lat # Null /\ store[k].lng = Null

\* the record is no mapping, lacks a title or a message, or has a bad
\* coordinate
Defective(item) ==
    \/ item.kind # "object"
    \/ Falsy(item.title) \/ Falsy(item.message)
    \/ BadCoordinates(item)

\* C14: a pass of StoreSync that returns counts over an array of N records
\* has inserted + skipped = N and as many skip reasons as skipped; the
\* reasons name, in increasing order, the indices of defective records, and
\* every record, also one behind a rejected record, is either named by a
\* reason or held by a row of the table.
C14_PerRecordAccounting ==
    SyncCompleted =>
        LET result == resp.result
            details == result.skipped_details
        IN /\ result.inserted + result.skipped = Len(file.data)
           /\ Len(details) = result.skipped
           /\ \A k \in DOMAIN details :
                /\ details[k].idx \in 0..(Len(file.data) - 1)
                /\ Defective(file.data[details[k].idx + 1])
                /\ k > 1 => details[k - 1].idx < details[k].idx
           /\ Len(store) = result.inserted
           /\ \A i \in DOMAIN file.data :
                (i - 1) \in SkippedIdx(result)
                    <=> ~(\E k \in DOMAIN store : store[k].time.seq = i)

\* the first record was rejected and the second, behind it, inserted
C14_Witness ==
    /\ SyncCompleted /\ Len(file.data) = 2
    /\ resp.result.skipped = 1 /\ resp.result.inserted = 1
    /\ resp.result.skipped_details[1].idx = 0
    /\ Len(store) = 1 /\ store[1].time.seq = 2

-----------------------------------------------------------------------------
(* Further claims about the ingestion run, checked under SpecIngest        *)

\* C15: no page is fetched when the alerts accumulated from the feeds and
\* the pages before it are already 5 or more.
C15_NoPageFetchedAtThreshold ==
    [][ (pc = "pages" /\ pageIdx' = pageIdx + 1)
            => Len(all_alerts) < EnoughAlerts ]_vars

\* C16: when the fetch of a feed or a page fails, the alerts accumulated so
\* far stay as they are, nothing is raised, and the run goes on with the
\* source that follows, the pages coming after all the feeds; after the
\* last page, or with 5 alerts or more after a page, it goes on to the end
\* of fetch_incois_alerts.
C16_FailuresAbsorbed ==
    [][ (pc \in {"feeds", "pages"} /\ lastFetch' = "failed") =>
          /\ all_alerts' = all_alerts
          /\ raised' = "no"
          /\ pc = "feeds" =>
               /\ feedIdx' = feedIdx + 1 /\ pageIdx' = 1
               /\ pc' = IF feedIdx < Len(potential_feeds) THEN "feeds" ELSE "pages"
          /\ pc = "pages" =>
               /\ feedIdx = Len(potential_feeds) + 1 /\ feedIdx' = feedIdx
               /\ pageIdx' = pageIdx + 1
               /\ pc' = IF pageIdx < Len(scraping_urls)
                           /\ Len(all_alerts) < EnoughAlerts
                        THEN "pages" ELSE "dedup" ]_vars

\* a page failed after earlier sources had handed over alerts, and the next
\* page is about to be tried
C16_Witness ==
    /\ pc = "pages" /\ lastFetch = "failed"
    /\ 1 < pageIdx /\ pageIdx <= Len(scraping_urls)
    /\ all_alerts # << >>

=============================================================================
